---- MODULE Spec2Model ----
(***************************************************************************)
(* Model of the ASG instance-refresh controller (refresh.go):              *)
(* ASGRefresher.StartRefresh, ASGRefresher.DescribeRefresh and the polling *)
(* loop of ASGRefresher.WaitForRefresh, driven against a remote            *)
(* autoscaling API that answers a begin-refresh call with an identifier or *)
(* an error and each describe call with an error, zero records or one      *)
(* record.  One run makes one call: StartRefresh or WaitForRefresh.        *)
(*                                                                         *)
(* Durations and clock readings are counted in ticks of half a second, so  *)
(* that the "%.0f" rendering of timeout.Seconds() is a real rounding.      *)
(***************************************************************************)
EXTENDS Integers, Sequences, FiniteSets, TLC

----------------------------------------------------------------------------
(* Bounds of the exploration *)

\* largest number of describe calls followed in one WaitForRefresh call
MaxPolls == 3
\* largest timeout passed by a caller, in ticks
MaxTimeout == 3
\* largest poll interval passed by a caller, in ticks
MaxInterval == 1
\* largest time one remote describe call takes, in ticks
MaxLatency == 1

----------------------------------------------------------------------------
(* Values *)

ASGNames == {"asg-a", "asg-b"}
RefreshIDs == {"r-1", "r-2"}

\* the (fleet, refresh identifier) pairs a caller passes to WaitForRefresh
WaitHandles == {<<"asg-a", "r-1">>, <<"asg-b", "r-2">>}

\* statuses the remote may report: the five terminal ones, a documented
\* in-progress one, the empty string and a status unknown to the tool
RemoteStatuses ==
    {"Successful", "Failed", "Cancelled", "RollbackSuccessful", "RollbackFailed",
     "InProgress", "", "Baking"}

\* PercentageComplete is a *int32; NoPct stands for the nil pointer
NoPct == -1
PercentagesOf(s) ==
    IF s = "Successful" THEN {100}
    ELSE IF s = "InProgress" THEN {NoPct, 50}
    ELSE {NoPct}

\* causes of a failed remote call ("" is the nil error of the client)
NoCause == ""
RemoteCauses == {"AccessDenied", "context canceled"}

\* the nil *types.InstanceRefresh; addr is the identity of the allocation a
\* pointer refers to, 0 for nil
NilRefresh ==
    [addr |-> 0, InstanceRefreshId |-> "", Status |-> "", PercentageComplete |-> NoPct]

\* the nil error
NoError == [kind |-> "nil"]

\* The largest int32
MaxInt32 == 2147483647

\* A Go int is a 64-bit two's complement number; it is kept in three limbs,
\* hi (bits 32..63, signed), b31 (bit 31) and low (bits 0..30), and stands for
\* hi * 2^32 + b31 * 2^31 + low.  GoInt(n) is the int of a number n that fits
\* 32 bits.
GoInt(n) ==
    IF n >= 0 THEN [hi |-> 0, b31 |-> 0, low |-> n]
    ELSE [hi |-> -1, b31 |-> 1, low |-> (n + MaxInt32) + 1]

\* 2^31 and 2^32 + 90 as Go ints
TwoTo31 == [hi |-> 0, b31 |-> 1, low |-> 0]
TwoTo32Plus90 == [hi |-> 1, b31 |-> 0, low |-> 90]

\* a nil pointer is the empty tuple, a pointer to v the tuple <<v>>
Nil == << >>
Ptr(v) == <<v>>

\* values of RefreshOptions a caller may pass
MinHealthyInputs ==
    {GoInt(0), GoInt(90), GoInt(100), GoInt(150), GoInt(-1), TwoTo31, TwoTo32Plus90}
MaxHealthyInputs == {Nil, Ptr(0), Ptr(100), Ptr(110)}
InstanceWarmupInputs == {Nil, Ptr(0), Ptr(300)}

RefreshOptions ==
    [MinHealthyPercentage : MinHealthyInputs,
     MaxHealthyPercentage : MaxHealthyInputs,
     InstanceWarmup : InstanceWarmupInputs,
     SkipMatching : BOOLEAN]

\* the zero RefreshOptions
ZeroOptions ==
    [MinHealthyPercentage |-> GoInt(0), MaxHealthyPercentage |-> Nil,
     InstanceWarmup |-> Nil, SkipMatching |-> FALSE]

\* types.RefreshStrategyRolling
RefreshStrategyRolling == "Rolling"

\* variant of terminalStates: the two rollback statuses left out of the map
terminalStates_NoRollback == {"Successful", "Failed", "Cancelled"}

\* terminalStates are refresh statuses that will not progress further.
terminalStates ==
    {"Successful", "Failed", "Cancelled", "RollbackSuccessful", "RollbackFailed"}

----------------------------------------------------------------------------
(* The remote API *)

\* what DescribeInstanceRefreshes can answer to the n-th call for refresh id:
\* an error, an output with zero records, or an output with one freshly
\* allocated record for the requested identifier
RemoteResponses(n, id) ==
    { [err |-> c, InstanceRefreshes |-> << >>] : c \in RemoteCauses }
    \cup { [err |-> NoCause, InstanceRefreshes |-> << >>] }
    \cup { [err |-> NoCause,
            InstanceRefreshes |->
                << [addr |-> n, InstanceRefreshId |-> id,
                    Status |-> sp[1], PercentageComplete |-> sp[2]] >>]
           : sp \in UNION { {<<s, p>> : p \in PercentagesOf(s)} : s \in RemoteStatuses } }

\* what StartInstanceRefresh can answer: an error, or an output whose
\* InstanceRefreshId is a *string, nil or the identifier assigned
BeginResponses ==
    { [err |-> c, InstanceRefreshId |-> Nil] : c \in RemoteCauses }
    \cup { [err |-> NoCause, InstanceRefreshId |-> p]
            : p \in {Nil} \cup { Ptr(id) : id \in RefreshIDs } }

----------------------------------------------------------------------------
(* Pure parts of refresh.go *)

\* int32(x) of a Go int: the low 32 bits, read as a signed number
Int32Of(x) == IF x.b31 = 0 THEN x.low ELSE (x.low - MaxInt32) - 1

\* aws.ToString: the string pointed to, "" for nil
AwsToString(p) == IF p = Nil THEN "" ELSE p[1]

\* variant of RefreshPreferences: the optional fields always sent, an unset
\* one as zero
RefreshPreferences_ZeroWhenUnset(opts) ==
    [MinHealthyPercentage |-> Ptr(Int32Of(opts.MinHealthyPercentage)),
     SkipMatching |-> Ptr(opts.SkipMatching),
     InstanceWarmup |->
        IF opts.InstanceWarmup # Nil THEN opts.InstanceWarmup ELSE Ptr(0),
     MaxHealthyPercentage |->
        IF opts.MaxHealthyPercentage # Nil THEN opts.MaxHealthyPercentage ELSE Ptr(0)]

\* variant of RefreshPreferences: MaxHealthyPercentage capped at 100 and a
\* zero warmup taken for unset
RefreshPreferences_Normalised(opts) ==
    [MinHealthyPercentage |-> Ptr(Int32Of(opts.MinHealthyPercentage)),
     SkipMatching |-> Ptr(opts.SkipMatching),
     InstanceWarmup |->
        IF opts.InstanceWarmup # Nil /\ opts.InstanceWarmup # Ptr(0)
        THEN opts.InstanceWarmup ELSE Nil,
     MaxHealthyPercentage |->
        IF opts.MaxHealthyPercentage = Nil THEN Nil
        ELSE IF opts.MaxHealthyPercentage[1] > 100 THEN Ptr(100)
        ELSE opts.MaxHealthyPercentage]

\* variant of RefreshPreferences: SkipMatching and MinHealthyPercentage sent
\* only when they differ from the zero value
RefreshPreferences_OmitZero(opts) ==
    [MinHealthyPercentage |->
        IF Int32Of(opts.MinHealthyPercentage) # 0
        THEN Ptr(Int32Of(opts.MinHealthyPercentage)) ELSE Nil,
     SkipMatching |-> IF opts.SkipMatching THEN Ptr(TRUE) ELSE Nil,
     InstanceWarmup |->
        IF opts.InstanceWarmup # Nil THEN opts.InstanceWarmup ELSE Nil,
     MaxHealthyPercentage |->
        IF opts.MaxHealthyPercentage # Nil THEN opts.MaxHealthyPercentage ELSE Nil]

\* prefs := &types.RefreshPreferences{...} and the two optional assignments
RefreshPreferences(opts) ==
    [MinHealthyPercentage |-> Ptr(Int32Of(opts.MinHealthyPercentage)),
     SkipMatching |-> Ptr(opts.SkipMatching),
     InstanceWarmup |->
        IF opts.InstanceWarmup # Nil THEN opts.InstanceWarmup ELSE Nil,
     MaxHealthyPercentage |->
        IF opts.MaxHealthyPercentage # Nil THEN opts.MaxHealthyPercentage ELSE Nil]

\* variant of StartInstanceRefreshInput: the strategy left to the remote
\* default when the instances are replaced ahead of termination
StartInstanceRefreshInput_StrategyUnset(name, opts) ==
    [AutoScalingGroupName |-> Ptr(name),
     Strategy |->
        IF opts.MaxHealthyPercentage # Nil /\ opts.MaxHealthyPercentage[1] > 100
        THEN "" ELSE RefreshStrategyRolling,
     Preferences |-> RefreshPreferences(opts)]

\* &autoscaling.StartInstanceRefreshInput{...}
StartInstanceRefreshInput(name, opts) ==
    [AutoScalingGroupName |-> Ptr(name),
     Strategy |-> RefreshStrategyRolling,
     Preferences |-> RefreshPreferences(opts)]

\* variant of StartResult: the fleet name left at its zero value
StartResult_NoName(name, out) ==
    [InstanceRefreshId |-> AwsToString(out.InstanceRefreshId),
     AutoScalingGroupName |-> ""]

\* &StartResult{...}
StartResult(name, out) ==
    [InstanceRefreshId |-> AwsToString(out.InstanceRefreshId),
     AutoScalingGroupName |-> name]

\* variant of Wrap: the cause is not kept ("%v" of nothing)
Wrap_DropCause(msg, cause) == [kind |-> "wrapped", msg |-> msg, cause |-> NoCause]

\* fmt.Errorf(msg + ": %w", cause)
Wrap(msg, cause) == [kind |-> "wrapped", msg |-> msg, cause |-> cause]

\* variant of DescribeRefresh: a failed remote call is swallowed and reported
\* as "not found"
DescribeRefresh_SwallowError(resp) ==
    IF resp.err # NoCause \/ Len(resp.InstanceRefreshes) = 0
    THEN [result |-> NilRefresh, err |-> NoError]
    ELSE [result |-> resp.InstanceRefreshes[1], err |-> NoError]

\* variant of DescribeRefresh: the client's error returned as it came
DescribeRefresh_Unwrapped(resp) ==
    IF resp.err # NoCause
    THEN [result |-> NilRefresh, err |-> [kind |-> "remote", cause |-> resp.err]]
    ELSE IF Len(resp.InstanceRefreshes) = 0
         THEN [result |-> NilRefresh, err |-> NoError]
         ELSE [result |-> resp.InstanceRefreshes[1], err |-> NoError]

\* variant of DescribeRefresh: zero matching records reported as an error
DescribeRefresh_ErrorOnEmpty(resp) ==
    IF resp.err # NoCause
    THEN [result |-> NilRefresh, err |-> Wrap("describe instance refresh", resp.err)]
    ELSE IF Len(resp.InstanceRefreshes) = 0
         THEN [result |-> NilRefresh,
               err |-> Wrap("describe instance refresh", "not found")]
         ELSE [result |-> resp.InstanceRefreshes[1], err |-> NoError]

\* variant of DescribeInstanceRefreshesInput: no identifier is named, the
\* remote is asked for every refresh of the group
DescribeInstanceRefreshesInput_WholeGroup(name, id) ==
    [AutoScalingGroupName |-> name, InstanceRefreshIds |-> << >>]

\* &autoscaling.DescribeInstanceRefreshesInput{AutoScalingGroupName:
\* aws.String(asgName), InstanceRefreshIds: []string{refreshID}}
DescribeInstanceRefreshesInput(name, id) ==
    [AutoScalingGroupName |-> name, InstanceRefreshIds |-> <<id>>]

\* DescribeRefresh: (nil, wrapped error) | (nil, nil) | (&records[0], nil)
DescribeRefresh(resp) ==
    IF resp.err # NoCause
    THEN [result |-> NilRefresh, err |-> Wrap("describe instance refresh", resp.err)]
    ELSE IF Len(resp.InstanceRefreshes) = 0
         THEN [result |-> NilRefresh, err |-> NoError]
         ELSE [result |-> resp.InstanceRefreshes[1], err |-> NoError]

\* variant of FormatSeconds: the fraction is cut off ("%d" of int(d.Seconds()))
FormatSeconds_Truncate(d) == d \div 2

\* "%.0f" of d.Seconds() for a duration of d ticks (two ticks to the second):
\* rounding to the nearest whole number, ties to even
FormatSeconds(d) ==
    LET q == d \div 2
    IN  IF d % 2 = 0 THEN q
        ELSE IF q % 2 = 0 THEN q ELSE q + 1

\* fmt.Errorf("timed out after %.0fs waiting for refresh %s", timeout.Seconds(), refreshID)
TimeoutError(to, id) ==
    [kind |-> "timeout", seconds |-> FormatSeconds(to), refreshID |-> id]

\* variant of DeadlineReached: strict comparison
DeadlineReached_Strict(clock, st, to) == clock - st > to

\* variant of DeadlineReached: the clock reading compared without the start
DeadlineReached_NoStart(clock, st, to) == clock >= to

\* time.Since(start) >= timeout
DeadlineReached(clock, st, to) == clock - st >= to

\* variant of InvokeCallback: the callback is skipped for a snapshot that ends
\* the loop
InvokeCallback_SkipFinal(cb, seen, res) ==
    IF cb /\ res.Status \notin terminalStates THEN Append(seen, res) ELSE seen

\* variant of InvokeCallback: the callback is handed the previous snapshot
\* again when there is one
InvokeCallback_Stale(cb, seen, res) ==
    IF cb
    THEN Append(seen, IF Len(seen) > 0 THEN seen[Len(seen)] ELSE res)
    ELSE seen

\* if statusCallback != nil { statusCallback(result) }
InvokeCallback(cb, seen, res) == IF cb THEN Append(seen, res) ELSE seen

\* variant of IsTerminal: only a Successful refresh ends the loop
IsTerminal_SuccessOnly(res) == res.Status = "Successful"

\* variant of IsTerminal: everything but InProgress ends the loop
IsTerminal_NotInProgress(res) == res.Status # "InProgress"

\* variant of IsTerminal: Failed is not looked up
IsTerminal_NoFailed(res) == res.Status \in terminalStates \ {"Failed"}

\* terminalStates[string(result.Status)]
IsTerminal(res) == res.Status \in terminalStates

----------------------------------------------------------------------------
(* State *)

VARIABLES
    sleepKind,      \* r.sleep: "time.Sleep" (NewASGRefresher) or "noop" (newTestRefresher)
    pc,             \* position of the WaitForRefresh call
    asgName,        \* arguments of the call
    refreshID,
    interval,
    timeout,
    hasCallback,    \* statusCallback != nil
    now,            \* the monotonic clock
    start,          \* start := time.Now()
    result,         \* result of the last DescribeRefresh
    describeLog,    \* the describe calls made, each with the remote's answer
    callbackLog,    \* the arguments statusCallback was invoked with
    sleepLog,       \* the durations r.sleep was invoked with
    ret,            \* what WaitForRefresh returned
    startPc,        \* position of the StartRefresh call
    startArgs,      \* arguments of the StartRefresh call
    startLog,       \* the StartInstanceRefresh calls made
    startResp,      \* the remote's answers to them
    startRet,       \* what StartRefresh returned
    ctxDone,        \* the caller's context has been cancelled
    cmdPc,          \* position of the command's RunE
    cmd,            \* the command line and environment of the command
    cmdRet,         \* the error RunE returned
    stdout,         \* the documents written to cmd.OutOrStdout()
    factoryLog,     \* the regions the refresher factory was called with
    envCall,        \* a call of envIntOrDefault
    waiters         \* the locals of each of the concurrent WaitForRefresh calls

startVars == <<startPc, startArgs, startLog, startResp, startRet>>

waitVars == <<pc, asgName, refreshID, interval, timeout, hasCallback,
              now, start, result, describeLog, callbackLog, sleepLog, ret>>

\* the state outside the calls on the ASGRefresher
outerVars == <<ctxDone, cmdPc, cmd, cmdRet, stdout, factoryLog, envCall, waiters>>

vars == <<sleepKind, pc, asgName, refreshID, interval, timeout, hasCallback,
          now, start, result, describeLog, callbackLog, sleepLog, ret,
          startPc, startArgs, startLog, startResp, startRet,
          ctxDone, cmdPc, cmd, cmdRet, stdout, factoryLog, envCall, waiters>>

NoReturn == [result |-> NilRefresh, err |-> NoError]

NoStartReturn == [result |-> Nil, err |-> NoError]

\* NewASGRefresher / newTestRefresher; no call made yet
Init ==
    /\ sleepKind \in {"time.Sleep", "noop"}
    /\ pc = "idle"
    /\ asgName = ""
    /\ refreshID = ""
    /\ interval = 0
    /\ timeout = 0
    /\ hasCallback = FALSE
    /\ now \in 0..1
    /\ start = 0
    /\ result = NilRefresh
    /\ describeLog = << >>
    /\ callbackLog = << >>
    /\ sleepLog = << >>
    /\ ret = NoReturn
    /\ startPc = "idle"
    /\ startArgs = [asgName |-> "", opts |-> ZeroOptions]
    /\ startLog = << >>
    /\ startResp = << >>
    /\ startRet = NoStartReturn
    /\ ctxDone = FALSE
    /\ cmdPc = "idle"
    /\ cmd = [name |-> "none"]
    /\ cmdRet = NoError
    /\ stdout = << >>
    /\ factoryLog = << >>
    /\ envCall = [pc |-> "idle", set |-> FALSE, value |-> << >>, def |-> 0, out |-> 0]
    /\ waiters = [w \in {1, 2} |->
                    [pc |-> "idle", asgName |-> "", refreshID |-> "", interval |-> 0,
                     timeout |-> 0, hasCallback |-> FALSE, start |-> 0, wake |-> 0,
                     result |-> NilRefresh, describeLog |-> << >>,
                     callbackLog |-> << >>, sleepLog |-> << >>, ret |-> NoReturn]]

----------------------------------------------------------------------------
(* The steps of WaitForRefresh *)

\* entry: the arguments are bound and start := time.Now()
WaitForRefresh ==
    /\ pc = "idle"
    /\ startPc = "idle"
    /\ \E h \in WaitHandles, i \in 0..MaxInterval,
          t \in 0..MaxTimeout, cb \in BOOLEAN :
          /\ asgName' = h[1]
          /\ refreshID' = h[2]
          /\ interval' = i
          /\ timeout' = t
          /\ hasCallback' = cb
    /\ start' = now
    /\ pc' = "describe"
    /\ UNCHANGED <<sleepKind, now, result, describeLog, callbackLog, sleepLog, ret>>
    /\ UNCHANGED startVars
    /\ UNCHANGED outerVars

\* result, err := r.DescribeRefresh(ctx, asgName, refreshID)
\* if err != nil { return nil, err }
Describe ==
    /\ pc = "describe"
    /\ Len(describeLog) < MaxPolls
    /\ \E resp \in RemoteResponses(Len(describeLog) + 1, refreshID),
          d \in 0..MaxLatency :
          LET r == DescribeRefresh(resp)
              input == DescribeInstanceRefreshesInput(asgName, refreshID)
          IN  /\ describeLog' = Append(describeLog,
                     [AutoScalingGroupName |-> input.AutoScalingGroupName,
                      InstanceRefreshIds |-> input.InstanceRefreshIds,
                      resp |-> resp])
              /\ now' = now + d
              /\ result' = r.result
              /\ IF r.err # NoError
                 THEN /\ ret' = [result |-> NilRefresh, err |-> r.err]
                      /\ pc' = "done"
                 ELSE /\ ret' = ret
                      /\ pc' = IF r.result # NilRefresh THEN "callback" ELSE "deadline"
    /\ UNCHANGED <<sleepKind, asgName, refreshID, interval, timeout, hasCallback,
                   start, callbackLog, sleepLog>>
    /\ UNCHANGED startVars
    /\ UNCHANGED outerVars

\* variant of Callback: the deadline is looked at before the status
Callback_DeadlineFirst ==
    /\ pc = "callback"
    /\ callbackLog' = InvokeCallback(hasCallback, callbackLog, result)
    /\ IF DeadlineReached(now, start, timeout)
       THEN /\ ret' = [result |-> NilRefresh, err |-> TimeoutError(timeout, refreshID)]
            /\ pc' = "done"
       ELSE /\ ret' = ret
            /\ pc' = "terminal"
    /\ UNCHANGED <<sleepKind, asgName, refreshID, interval, timeout, hasCallback,
                   now, start, result, describeLog, sleepLog>>
    /\ UNCHANGED startVars
    /\ UNCHANGED outerVars

\* if result != nil { if statusCallback != nil { statusCallback(result) } ...
Callback ==
    /\ pc = "callback"
    /\ callbackLog' = InvokeCallback(hasCallback, callbackLog, result)
    /\ pc' = "terminal"
    /\ UNCHANGED <<sleepKind, asgName, refreshID, interval, timeout, hasCallback,
                   now, start, result, describeLog, sleepLog, ret>>
    /\ UNCHANGED startVars
    /\ UNCHANGED outerVars

\* ... if terminalStates[string(result.Status)] { return result, nil } }
Terminal ==
    /\ pc = "terminal"
    /\ IF IsTerminal(result)
       THEN /\ ret' = [result |-> result, err |-> NoError]
            /\ pc' = "done"
       ELSE /\ ret' = ret
            /\ pc' = "deadline"
    /\ UNCHANGED <<sleepKind, asgName, refreshID, interval, timeout, hasCallback,
                   now, start, result, describeLog, callbackLog, sleepLog>>
    /\ UNCHANGED startVars
    /\ UNCHANGED outerVars

\* variant of Deadline: the last snapshot is returned along with the error
Deadline_KeepResult ==
    /\ pc = "deadline"
    /\ IF DeadlineReached(now, start, timeout)
       THEN /\ ret' = [result |-> result, err |-> TimeoutError(timeout, refreshID)]
            /\ pc' = "done"
       ELSE /\ ret' = ret
            /\ pc' = "sleep"
    /\ UNCHANGED <<sleepKind, asgName, refreshID, interval, timeout, hasCallback,
                   now, start, result, describeLog, callbackLog, sleepLog>>
    /\ UNCHANGED startVars
    /\ UNCHANGED outerVars

\* variant of Deadline: the loop sleeps first and looks at the deadline after
Deadline_SleepFirst ==
    /\ pc = "deadline"
    /\ sleepLog' = Append(sleepLog, interval)
    /\ IF DeadlineReached(now, start, timeout)
       THEN /\ ret' = [result |-> NilRefresh, err |-> TimeoutError(timeout, refreshID)]
            /\ pc' = "done"
       ELSE /\ ret' = ret
            /\ pc' = "sleep"
    /\ UNCHANGED <<sleepKind, asgName, refreshID, interval, timeout, hasCallback,
                   now, start, result, describeLog, callbackLog>>
    /\ UNCHANGED startVars
    /\ UNCHANGED outerVars

\* if time.Since(start) >= timeout { return nil, fmt.Errorf("timed out ...") }
Deadline ==
    /\ pc = "deadline"
    /\ IF DeadlineReached(now, start, timeout)
       THEN /\ ret' = [result |-> NilRefresh, err |-> TimeoutError(timeout, refreshID)]
            /\ pc' = "done"
       ELSE /\ ret' = ret
            /\ pc' = "sleep"
    /\ UNCHANGED <<sleepKind, asgName, refreshID, interval, timeout, hasCallback,
                   now, start, result, describeLog, callbackLog, sleepLog>>
    /\ UNCHANGED startVars
    /\ UNCHANGED outerVars

\* variant of Sleep: the sleep returns at once and the clock stands still
Sleep_NoAdvance ==
    /\ pc = "sleep"
    /\ sleepLog' = Append(sleepLog, interval)
    /\ now' = now
    /\ pc' = "describe"
    /\ UNCHANGED <<sleepKind, asgName, refreshID, interval, timeout, hasCallback,
                   start, result, describeLog, callbackLog, ret>>
    /\ UNCHANGED startVars
    /\ UNCHANGED outerVars

\* variant of Sleep: the delay grows with every iteration
Sleep_Backoff ==
    /\ pc = "sleep"
    /\ sleepLog' = Append(sleepLog, interval * (Len(sleepLog) + 1))
    /\ now' = IF sleepKind = "time.Sleep"
              THEN now + interval * (Len(sleepLog) + 1) ELSE now
    /\ pc' = "describe"
    /\ UNCHANGED <<sleepKind, asgName, refreshID, interval, timeout, hasCallback,
                   start, result, describeLog, callbackLog, ret>>
    /\ UNCHANGED startVars
    /\ UNCHANGED outerVars

\* variant of Sleep: the start time is taken again after every sleep
Sleep_ResetStart ==
    /\ pc = "sleep"
    /\ sleepLog' = Append(sleepLog, interval)
    /\ now' = IF sleepKind = "time.Sleep" THEN now + interval ELSE now
    /\ start' = now'
    /\ pc' = "describe"
    /\ UNCHANGED <<sleepKind, asgName, refreshID, interval, timeout, hasCallback,
                   result, describeLog, callbackLog, ret>>
    /\ UNCHANGED startVars
    /\ UNCHANGED outerVars

\* r.sleep(interval), then the next iteration
Sleep ==
    /\ pc = "sleep"
    /\ sleepLog' = Append(sleepLog, interval)
    /\ now' = IF sleepKind = "time.Sleep" THEN now + interval ELSE now
    /\ pc' = "describe"
    /\ UNCHANGED <<sleepKind, asgName, refreshID, interval, timeout, hasCallback,
                   start, result, describeLog, callbackLog, ret>>
    /\ UNCHANGED startVars
    /\ UNCHANGED outerVars

(* The steps of StartRefresh *)

\* entry: the preferences are built and StartInstanceRefresh is called
StartRefresh ==
    /\ startPc = "idle"
    /\ pc = "idle"
    /\ \E name \in ASGNames, opts \in RefreshOptions :
          /\ startArgs' = [asgName |-> name, opts |-> opts]
          /\ startLog' = Append(startLog, StartInstanceRefreshInput(name, opts))
    /\ startPc' = "begin"
    /\ UNCHANGED <<startResp, startRet>>
    /\ UNCHANGED <<sleepKind, waitVars>>
    /\ UNCHANGED outerVars

\* variant of BeginReturned: a failed call is issued once more
BeginReturned_RetryOnce ==
    /\ startPc = "begin"
    /\ \E out \in BeginResponses :
          /\ startResp' = Append(startResp, out)
          /\ IF out.err # NoCause /\ Len(startLog) < 2
             THEN /\ startLog' = Append(startLog, startLog[Len(startLog)])
                  /\ startRet' = startRet
                  /\ startPc' = "begin"
             ELSE /\ startLog' = startLog
                  /\ startRet' =
                        IF out.err # NoCause
                        THEN [result |-> Nil,
                              err |-> Wrap("start instance refresh", out.err)]
                        ELSE [result |-> Ptr(StartResult(startArgs.asgName, out)),
                              err |-> NoError]
                  /\ startPc' = "done"
    /\ UNCHANGED startArgs
    /\ UNCHANGED <<sleepKind, waitVars>>
    /\ UNCHANGED outerVars

\* the remote call returns: if err != nil { return nil, fmt.Errorf(...) },
\* otherwise return &StartResult{...}, nil
BeginReturned ==
    /\ startPc = "begin"
    /\ \E out \in BeginResponses :
          /\ startResp' = Append(startResp, out)
          /\ startRet' =
                IF out.err # NoCause
                THEN [result |-> Nil,
                      err |-> Wrap("start instance refresh", out.err)]
                ELSE [result |-> Ptr(StartResult(startArgs.asgName, out)),
                      err |-> NoError]
    /\ startPc' = "done"
    /\ UNCHANGED <<startArgs, startLog>>
    /\ UNCHANGED <<sleepKind, waitVars>>
    /\ UNCHANGED outerVars

Next ==
    \/ StartRefresh
    \/ BeginReturned
    \/ WaitForRefresh
    \/ Describe
    \/ Callback
    \/ Terminal
    \/ Deadline
    \/ Sleep

Spec == Init /\ [][Next]_vars

----------------------------------------------------------------------------
(* Cancellation of the caller's context *)

\* the caller cancels ctx; WaitForRefresh and StartRefresh hand ctx to the
\* client and read it nowhere themselves
Cancel ==
    /\ ~ctxDone
    /\ pc # "idle"
    /\ ctxDone' = TRUE
    /\ UNCHANGED <<sleepKind, waitVars, startVars>>
    /\ UNCHANGED <<cmdPc, cmd, cmdRet, stdout, factoryLog, envCall, waiters>>

\* a refresher that sleeps with time.Sleep, as NewASGRefresher makes it
InitCancel == Init /\ sleepKind = "time.Sleep" /\ now = 0

NextCancel ==
    \/ WaitForRefresh
    \/ Describe
    \/ Callback
    \/ Terminal
    \/ Deadline
    \/ Sleep
    \/ Cancel

\* one WaitForRefresh call whose context may be cancelled at any moment
CancelSpec == InitCancel /\ [][NextCancel]_vars

----------------------------------------------------------------------------
(* main.go: environment values *)

\* the longest environment value that is drawn
MaxEnvLen == 3

\* an environment value is a sequence of characters over this alphabet
EnvChars == {"0", "1", "7", "-", "+", "a", " "}

\* twenty nines: a decimal numeral beyond the range of a 64-bit int
TwentyNines == [i \in 1..20 |-> "9"]

EnvStrings ==
    UNION { [1..n -> EnvChars] : n \in 0..MaxEnvLen } \cup {TwentyNines}

Digits == {"0", "1", "2", "3", "4", "5", "6", "7", "8", "9"}

DigitValue(c) ==
    CASE c = "0" -> 0 [] c = "1" -> 1 [] c = "2" -> 2 [] c = "3" -> 3
      [] c = "4" -> 4 [] c = "5" -> 5 [] c = "6" -> 6 [] c = "7" -> 7
      [] c = "8" -> 8 [] c = "9" -> 9

\* n = n*10 + int(ch) over the digits, left to right
RECURSIVE ParseDigits(_, _)
ParseDigits(s, n) ==
    IF Len(s) = 0 THEN n
    ELSE ParseDigits(SubSeq(s, 2, Len(s)), n * 10 + DigitValue(s[1]))

\* strconv.Atoi: an optional sign, then one or more decimal digits; anything
\* else is a syntax error, a numeral beyond 64 bits a range error.  Numerals
\* of 10 to 19 digits are not drawn, those of 20 digits start with a nonzero
\* digit.
Atoi(s) ==
    LET signed == Len(s) > 0 /\ s[1] \in {"+", "-"}
        body == IF signed THEN SubSeq(s, 2, Len(s)) ELSE s
    IN  IF Len(body) = 0 \/ \E i \in 1..Len(body) : body[i] \notin Digits
        THEN [n |-> 0, err |-> "invalid syntax"]
        ELSE IF Len(body) > 19
        THEN [n |-> 0, err |-> "value out of range"]
        ELSE [n |-> IF s[1] = "-" THEN 0 - ParseDigits(body, 0)
                    ELSE ParseDigits(body, 0),
              err |-> ""]

\* os.Getenv: the value of a variable, empty when the variable is unset
Getenv(e) == IF e.set THEN e.value ELSE << >>

\* variant of envIntOrDefault: an unparsable value yields zero
envIntOrDefault_ZeroOnInvalid(v, def) ==
    IF Len(v) # 0 THEN Atoi(v).n ELSE def

\* envIntOrDefault, given the value v that os.Getenv(key) returned
envIntOrDefault(v, def) ==
    IF Len(v) # 0 /\ Atoi(v).err = "" THEN Atoi(v).n ELSE def

\* the defaults envIntOrDefault is called with
EnvDefaults == {90, 30, 3600}

----------------------------------------------------------------------------
(* main.go: the start and check commands *)

\* errNonSuccessful
errNonSuccessful == [kind |-> "errNonSuccessful"]

\* fmt.Errorf("ASG_NAME argument or environment variable required")
ErrASGNameRequired ==
    [kind |-> "errorf", msg |-> "ASG_NAME argument or environment variable required"]

\* fmt.Errorf("REFRESH_ID argument or INSTANCE_REFRESH_ID environment variable required")
ErrRefreshIDRequired ==
    [kind |-> "errorf",
     msg |-> "REFRESH_ID argument or INSTANCE_REFRESH_ID environment variable required"]

\* what cobra answers to a flag the command has not registered
ErrUnknownFlag(f) == [kind |-> "unknown flag", flag |-> f]

\* what cobra.RangeArgs answers to too many positional arguments
ErrTooManyArgs == [kind |-> "range args"]

\* defaultFactory: fmt.Errorf("load AWS config: %w", err)
ErrLoadConfig == Wrap("load AWS config", "no credentials")

\* the error of enc.Encode when the output cannot be written
ErrWrite == [kind |-> "write"]

\* the flags newStartCmd registers
StartFlags == {"min-healthy-percentage", "instance-warmup", "skip-matching", "region"}

\* the flags newCheckCmd registers
CheckFlags == {"region", "interval", "timeout"}

\* time.Duration(n) * time.Second, in ticks
Seconds(n) == 2 * n

\* command lines of the start command: positional arguments, the environment
\* and the flags given (Nil for a flag that is not on the command line)
StartInvocations ==
    { [name |-> "start",
       args |-> a,
       env |-> [ASG_NAME |-> en, MIN_HEALTHY_PERCENTAGE |-> em,
                INSTANCE_WARMUP |-> ew, SKIP_MATCHING |-> es],
       flags |-> ("min-healthy-percentage" :> fm) @@ ("instance-warmup" :> fw)
                 @@ ("skip-matching" :> fs) @@ ("max-healthy-percentage" :> fx)]
      : a \in {<< >>, <<"asg-a">>, <<"asg-a", "asg-b">>},
        en \in {"", "asg-b"},
        em \in {<< >>, <<"7", "0">>, <<"a">>},
        ew \in {<< >>, <<"1", "7">>},
        es \in {"", "true"},
        fm \in {Nil, Ptr(GoInt(75))},
        fw \in {Nil, Ptr(GoInt(0)), Ptr(GoInt(300))},
        fs \in {Nil, Ptr(TRUE), Ptr(FALSE)},
        fx \in {Nil, Ptr(GoInt(110))} }

\* command lines of the check command
CheckInvocations ==
    { [name |-> "check",
       args |-> a,
       env |-> [ASG_NAME |-> en, INSTANCE_REFRESH_ID |-> ei,
                CHECK_INTERVAL |-> ev, CHECK_TIMEOUT |-> et],
       flags |-> ("interval" :> fi) @@ ("timeout" :> ft)]
      : a \in {<< >>, <<"asg-a">>, <<"asg-a", "r-1">>, <<"asg-a", "r-1", "r-2">>},
        en \in {"", "asg-b"},
        ei \in {"", "r-2"},
        ev \in {<< >>, <<"0">>},
        et \in {<< >>, <<"1">>},
        fi \in {Nil, Ptr(1)},
        ft \in {Nil, Ptr(0)} }

\* no command has run
NoCmd == [name |-> "none"]

\* the flags on the command line
Given(flags) == {f \in DOMAIN flags : flags[f] # Nil}

\* cmd.Flags().Changed(f)
Changed(flags, f) == f \in DOMAIN flags /\ flags[f] # Nil

\* the value of a flag variable: the value on the command line, or the
\* default the flag was registered with
FlagValue(flags, f, def) == IF Changed(flags, f) THEN flags[f][1] ELSE def

\* cobra's checks before RunE: every flag is a registered one, and the
\* positional arguments are within cobra.RangeArgs(0, max)
ParseCommandLine(registered, max, inv) ==
    IF Given(inv.flags) \ registered # {}
    THEN ErrUnknownFlag(CHOOSE f \in Given(inv.flags) \ registered : TRUE)
    ELSE IF Len(inv.args) > max THEN ErrTooManyArgs
    ELSE NoError

\* argOrEnv, given the value of the named environment variable
argOrEnv(args, i, envValue) == IF i < Len(args) THEN args[i + 1] ELSE envValue

\* variant of StartCmdOptions: the warmup is sent when it is not zero
StartCmdOptions_WarmupWhenNonZero(inv) ==
    LET w == FlagValue(inv.flags, "instance-warmup", GoInt(0))
    IN  [MinHealthyPercentage |->
            FlagValue(inv.flags, "min-healthy-percentage",
                      GoInt(envIntOrDefault(inv.env.MIN_HEALTHY_PERCENTAGE, 90))),
         MaxHealthyPercentage |-> Nil,
         InstanceWarmup |-> IF Int32Of(w) # 0 THEN Ptr(Int32Of(w)) ELSE Nil,
         SkipMatching |-> FlagValue(inv.flags, "skip-matching", FALSE)]

\* the RefreshOptions the start command builds from its flag variables
StartCmdOptions(inv) ==
    [MinHealthyPercentage |->
        FlagValue(inv.flags, "min-healthy-percentage",
                  GoInt(envIntOrDefault(inv.env.MIN_HEALTHY_PERCENTAGE, 90))),
     MaxHealthyPercentage |-> Nil,
     InstanceWarmup |->
        IF Changed(inv.flags, "instance-warmup")
        THEN Ptr(Int32Of(FlagValue(inv.flags, "instance-warmup", GoInt(0))))
        ELSE Nil,
     SkipMatching |-> FlagValue(inv.flags, "skip-matching", FALSE)]

\* what stops the start command before it creates a refresher
StartCmdPrecheck(inv) ==
    IF ParseCommandLine(StartFlags, 1, inv) # NoError
    THEN ParseCommandLine(StartFlags, 1, inv)
    ELSE IF argOrEnv(inv.args, 0, inv.env.ASG_NAME) = "" THEN ErrASGNameRequired
    ELSE NoError

\* variant of CheckCmdPrecheck: the refresh identifier is not looked at
CheckCmdPrecheck_NoIDCheck(inv) ==
    IF ParseCommandLine(CheckFlags, 2, inv) # NoError
    THEN ParseCommandLine(CheckFlags, 2, inv)
    ELSE IF argOrEnv(inv.args, 0, inv.env.ASG_NAME) = "" THEN ErrASGNameRequired
    ELSE NoError

\* what stops the check command before it creates a refresher
CheckCmdPrecheck(inv) ==
    IF ParseCommandLine(CheckFlags, 2, inv) # NoError
    THEN ParseCommandLine(CheckFlags, 2, inv)
    ELSE IF argOrEnv(inv.args, 0, inv.env.ASG_NAME) = "" THEN ErrASGNameRequired
    ELSE IF argOrEnv(inv.args, 1, inv.env.INSTANCE_REFRESH_ID) = ""
    THEN ErrRefreshIDRequired
    ELSE NoError

\* variant of CheckExit: every terminal status is a success
CheckExit_AnyTerminal(res) == NoError

\* if string(result.Status) != "Successful" { return errNonSuccessful }; return nil
CheckExit(res) == IF res.Status # "Successful" THEN errNonSuccessful ELSE NoError

(* The steps of the start command *)

\* RunE of start up to the call of r.StartRefresh
StartCmd ==
    /\ cmdPc = "idle"
    /\ pc = "idle"
    /\ startPc = "idle"
    /\ \E inv \in StartInvocations, made \in BOOLEAN :
          LET pre == StartCmdPrecheck(inv)
              name == argOrEnv(inv.args, 0, inv.env.ASG_NAME)
              opts == StartCmdOptions(inv)
          IN  /\ cmd' = inv
              /\ IF pre # NoError
                 THEN /\ cmdRet' = pre
                      /\ cmdPc' = "done"
                      /\ UNCHANGED <<factoryLog, startArgs, startLog, startPc>>
                 ELSE /\ factoryLog' = Append(factoryLog, "")
                      /\ IF ~made
                         THEN /\ cmdRet' = ErrLoadConfig
                              /\ cmdPc' = "done"
                              /\ UNCHANGED <<startArgs, startLog, startPc>>
                         ELSE /\ cmdRet' = cmdRet
                              /\ cmdPc' = "start"
                              /\ startArgs' = [asgName |-> name, opts |-> opts]
                              /\ startLog' = Append(startLog,
                                                StartInstanceRefreshInput(name, opts))
                              /\ startPc' = "begin"
    /\ UNCHANGED <<startResp, startRet>>
    /\ UNCHANGED <<sleepKind, waitVars>>
    /\ UNCHANGED <<ctxDone, stdout, envCall, waiters>>

\* RunE of start after r.StartRefresh returned
StartCmdReturn ==
    /\ cmdPc = "start"
    /\ startPc = "done"
    /\ \E written \in BOOLEAN :
          IF startRet.err # NoError
          THEN /\ cmdRet' = startRet.err
               /\ stdout' = stdout
          ELSE IF ~written
          THEN /\ cmdRet' = ErrWrite
               /\ stdout' = stdout
          ELSE /\ cmdRet' = NoError
               /\ stdout' = Append(stdout, startRet.result[1])
    /\ cmdPc' = "done"
    /\ UNCHANGED <<sleepKind, waitVars, startVars>>
    /\ UNCHANGED <<ctxDone, cmd, factoryLog, envCall, waiters>>

(* The steps of the check command *)

\* RunE of check up to the call of r.WaitForRefresh, and the entry of that call
CheckCmd ==
    /\ cmdPc = "idle"
    /\ pc = "idle"
    /\ startPc = "idle"
    /\ \E inv \in CheckInvocations, made \in BOOLEAN :
          LET pre == CheckCmdPrecheck(inv)
          IN  /\ cmd' = inv
              /\ IF pre # NoError
                 THEN /\ cmdRet' = pre
                      /\ cmdPc' = "done"
                      /\ UNCHANGED <<factoryLog, pc, asgName, refreshID, interval,
                                     timeout, hasCallback, start>>
                 ELSE /\ factoryLog' = Append(factoryLog, "")
                      /\ IF ~made
                         THEN /\ cmdRet' = ErrLoadConfig
                              /\ cmdPc' = "done"
                              /\ UNCHANGED <<pc, asgName, refreshID, interval,
                                             timeout, hasCallback, start>>
                         ELSE /\ cmdRet' = cmdRet
                              /\ cmdPc' = "check"
                              /\ asgName' = argOrEnv(inv.args, 0, inv.env.ASG_NAME)
                              /\ refreshID' =
                                    argOrEnv(inv.args, 1, inv.env.INSTANCE_REFRESH_ID)
                              /\ interval' =
                                    Seconds(FlagValue(inv.flags, "interval",
                                        envIntOrDefault(inv.env.CHECK_INTERVAL, 30)))
                              /\ timeout' =
                                    Seconds(FlagValue(inv.flags, "timeout",
                                        envIntOrDefault(inv.env.CHECK_TIMEOUT, 3600)))
                              /\ hasCallback' = TRUE
                              /\ start' = now
                              /\ pc' = "describe"
    /\ UNCHANGED <<sleepKind, now, result, describeLog, callbackLog, sleepLog, ret>>
    /\ UNCHANGED startVars
    /\ UNCHANGED <<ctxDone, stdout, envCall, waiters>>

\* variant of CheckCmdReturn: the status is looked at before the snapshot is
\* written
CheckCmdReturn_ExitFirst ==
    /\ cmdPc = "check"
    /\ pc = "done"
    /\ \E written \in BOOLEAN :
          IF ret.err # NoError
          THEN /\ cmdRet' = ret.err
               /\ stdout' = stdout
          ELSE IF CheckExit(ret.result) # NoError
          THEN /\ cmdRet' = CheckExit(ret.result)
               /\ stdout' = stdout
          ELSE IF ~written
          THEN /\ cmdRet' = ErrWrite
               /\ stdout' = stdout
          ELSE /\ cmdRet' = NoError
               /\ stdout' = Append(stdout, ret.result)
    /\ cmdPc' = "done"
    /\ UNCHANGED <<sleepKind, waitVars, startVars>>
    /\ UNCHANGED <<ctxDone, cmd, factoryLog, envCall, waiters>>

\* RunE of check after r.WaitForRefresh returned
CheckCmdReturn ==
    /\ cmdPc = "check"
    /\ pc = "done"
    /\ \E written \in BOOLEAN :
          IF ret.err # NoError
          THEN /\ cmdRet' = ret.err
               /\ stdout' = stdout
          ELSE IF ~written
          THEN /\ cmdRet' = ErrWrite
               /\ stdout' = stdout
          ELSE /\ cmdRet' = CheckExit(ret.result)
               /\ stdout' = Append(stdout, ret.result)
    /\ cmdPc' = "done"
    /\ UNCHANGED <<sleepKind, waitVars, startVars>>
    /\ UNCHANGED <<ctxDone, cmd, factoryLog, envCall, waiters>>

\* the process runs one command with the refresher of defaultFactory
InitCli == Init /\ sleepKind = "time.Sleep" /\ now = 0

NextCli ==
    \/ StartCmd
    \/ BeginReturned
    \/ StartCmdReturn
    \/ CheckCmd
    \/ Describe
    \/ Callback
    \/ Terminal
    \/ Deadline
    \/ Sleep
    \/ CheckCmdReturn

\* one run of the command line tool
CliSpec == InitCli /\ [][NextCli]_vars

(* envIntOrDefault on its own *)

\* a call envIntOrDefault(key, def) with the variable unset or set to a value
EnvIntOrDefaultCall ==
    /\ envCall.pc = "idle"
    /\ \E set \in BOOLEAN, v \in EnvStrings, def \in EnvDefaults :
          envCall' = [pc |-> "called", set |-> set, value |-> v, def |-> def, out |-> 0]
    /\ UNCHANGED <<sleepKind, waitVars, startVars>>
    /\ UNCHANGED <<ctxDone, cmdPc, cmd, cmdRet, stdout, factoryLog, waiters>>

\* the call returns
EnvIntOrDefaultReturn ==
    /\ envCall.pc = "called"
    /\ envCall' = [envCall EXCEPT !.pc = "returned",
                       !.out = envIntOrDefault(Getenv(envCall), envCall.def)]
    /\ UNCHANGED <<sleepKind, waitVars, startVars>>
    /\ UNCHANGED <<ctxDone, cmdPc, cmd, cmdRet, stdout, factoryLog, waiters>>

NextEnv ==
    \/ EnvIntOrDefaultCall
    \/ EnvIntOrDefaultReturn

\* calls of envIntOrDefault over the drawn environment values
EnvSpec == Init /\ [][NextEnv]_vars

----------------------------------------------------------------------------
(* Concurrent calls of WaitForRefresh on one refresher *)

\* the most polls one of the concurrent calls makes
MaxConcPolls == 2

\* the last reading of the clock
MaxConcClock == 3

\* the goroutines that call WaitForRefresh
Invocations == {1, 2}

\* each call watches a refresh of its own
ConcHandle(w) == IF w = 1 THEN <<"asg-a", "r-1">> ELSE <<"asg-b", "r-2">>

\* the arguments of call w: both poll every half second, the first waits
\* one second, the second half a second
ConcInterval(w) == 1
ConcTimeout(w) == IF w = 1 THEN 2 ELSE 1

\* the answers of the remote to the n-th describe call of call w: those of
\* RemoteResponses that fail with AccessDenied, hold no record, or hold a
\* record that is InProgress, Successful (100%) or Failed; the
\* records of the two calls are allocated apart
ConcResponses(w, n) ==
    { resp \in RemoteResponses(10 * w + n, ConcHandle(w)[2]) :
        /\ resp.err \in {NoCause, "AccessDenied"}
        /\ Len(resp.InstanceRefreshes) > 0 =>
              /\ resp.InstanceRefreshes[1].Status \in {"InProgress", "Successful", "Failed"}
              /\ resp.InstanceRefreshes[1].PercentageComplete \in {NoPct, 100} }

\* the locals of a call that has not been made
NoWaiter ==
    [pc |-> "idle", asgName |-> "", refreshID |-> "", interval |-> 0, timeout |-> 0,
     hasCallback |-> FALSE, start |-> 0, wake |-> 0, result |-> NilRefresh,
     describeLog |-> << >>, callbackLog |-> << >>, sleepLog |-> << >>,
     ret |-> NoReturn]

\* variant of ConcWaitForRefresh: the start time is kept in the refresher,
\* where every call reads it
ConcWaitForRefresh_SharedStart ==
    /\ \E w \in Invocations :
          /\ waiters[w].pc = "idle"
          /\ waiters' =
                [u \in Invocations |->
                    IF u = w
                    THEN [waiters[w] EXCEPT !.asgName = ConcHandle(w)[1],
                                            !.refreshID = ConcHandle(w)[2],
                                            !.interval = ConcInterval(w),
                                            !.timeout = ConcTimeout(w),
                                            !.hasCallback = TRUE,
                                            !.start = now,
                                            !.pc = "describe"]
                    ELSE [waiters[u] EXCEPT !.start = now]]
    /\ UNCHANGED <<sleepKind, waitVars, startVars>>
    /\ UNCHANGED <<ctxDone, cmdPc, cmd, cmdRet, stdout, factoryLog, envCall>>

\* entry of a call: the arguments are bound and start := time.Now()
ConcWaitForRefresh ==
    /\ \E w \in Invocations :
          /\ waiters[w].pc = "idle"
          /\ waiters' =
                [waiters EXCEPT ![w] =
                    [@ EXCEPT !.asgName = ConcHandle(w)[1],
                              !.refreshID = ConcHandle(w)[2],
                              !.interval = ConcInterval(w),
                              !.timeout = ConcTimeout(w),
                              !.hasCallback = TRUE,
                              !.start = now,
                              !.pc = "describe"]]
    /\ UNCHANGED <<sleepKind, waitVars, startVars>>
    /\ UNCHANGED <<ctxDone, cmdPc, cmd, cmdRet, stdout, factoryLog, envCall>>

\* result, err := r.DescribeRefresh(ctx, asgName, refreshID)
\* if err != nil { return nil, err }
ConcDescribe ==
    /\ \E w \in Invocations :
          /\ waiters[w].pc = "describe"
          /\ Len(waiters[w].describeLog) < MaxConcPolls
          /\ \E resp \in ConcResponses(w, Len(waiters[w].describeLog) + 1) :
                LET r == DescribeRefresh(resp)
                    input == DescribeInstanceRefreshesInput(waiters[w].asgName,
                                                            waiters[w].refreshID)
                IN  waiters' =
                      [waiters EXCEPT ![w] =
                          [@ EXCEPT
                             !.describeLog =
                                 Append(@, [AutoScalingGroupName |-> input.AutoScalingGroupName,
                                            InstanceRefreshIds |-> input.InstanceRefreshIds,
                                            resp |-> resp]),
                             !.result = r.result,
                             !.ret = IF r.err # NoError
                                     THEN [result |-> NilRefresh, err |-> r.err]
                                     ELSE @,
                             !.pc = IF r.err # NoError THEN "done"
                                    ELSE IF r.result # NilRefresh THEN "callback"
                                    ELSE "deadline"]]
    /\ UNCHANGED <<sleepKind, waitVars, startVars>>
    /\ UNCHANGED <<ctxDone, cmdPc, cmd, cmdRet, stdout, factoryLog, envCall>>

\* if result != nil { if statusCallback != nil { statusCallback(result) } ...
ConcCallback ==
    /\ \E w \in Invocations :
          /\ waiters[w].pc = "callback"
          /\ waiters' =
                [waiters EXCEPT ![w] =
                    [@ EXCEPT !.callbackLog =
                                  InvokeCallback(waiters[w].hasCallback, @,
                                                 waiters[w].result),
                              !.pc = "terminal"]]
    /\ UNCHANGED <<sleepKind, waitVars, startVars>>
    /\ UNCHANGED <<ctxDone, cmdPc, cmd, cmdRet, stdout, factoryLog, envCall>>

\* ... if terminalStates[string(result.Status)] { return result, nil } }
ConcTerminal ==
    /\ \E w \in Invocations :
          /\ waiters[w].pc = "terminal"
          /\ waiters' =
                [waiters EXCEPT ![w] =
                    IF IsTerminal(waiters[w].result)
                    THEN [@ EXCEPT !.ret = [result |-> waiters[w].result,
                                            err |-> NoError],
                                   !.pc = "done"]
                    ELSE [@ EXCEPT !.pc = "deadline"]]
    /\ UNCHANGED <<sleepKind, waitVars, startVars>>
    /\ UNCHANGED <<ctxDone, cmdPc, cmd, cmdRet, stdout, factoryLog, envCall>>

\* if time.Since(start) >= timeout { return nil, fmt.Errorf("timed out ...") }
ConcDeadline ==
    /\ \E w \in Invocations :
          /\ waiters[w].pc = "deadline"
          /\ waiters' =
                [waiters EXCEPT ![w] =
                    IF DeadlineReached(now, waiters[w].start, waiters[w].timeout)
                    THEN [@ EXCEPT !.ret = [result |-> NilRefresh,
                                            err |-> TimeoutError(waiters[w].timeout,
                                                                 waiters[w].refreshID)],
                                   !.pc = "done"]
                    ELSE [@ EXCEPT !.pc = "sleep"]]
    /\ UNCHANGED <<sleepKind, waitVars, startVars>>
    /\ UNCHANGED <<ctxDone, cmdPc, cmd, cmdRet, stdout, factoryLog, envCall>>

\* r.sleep(interval) is called: the goroutine is blocked until the interval
\* has passed (time.Sleep) or not at all (the sleep of newTestRefresher)
ConcSleep ==
    /\ \E w \in Invocations :
          /\ waiters[w].pc = "sleep"
          /\ waiters' =
                [waiters EXCEPT ![w] =
                    [@ EXCEPT !.sleepLog = Append(@, waiters[w].interval),
                              !.wake = IF sleepKind = "time.Sleep"
                                       THEN now + waiters[w].interval ELSE now,
                              !.pc = "sleeping"]]
    /\ UNCHANGED <<sleepKind, waitVars, startVars>>
    /\ UNCHANGED <<ctxDone, cmdPc, cmd, cmdRet, stdout, factoryLog, envCall>>

\* r.sleep(interval) returns, the next iteration begins
ConcWake ==
    /\ \E w \in Invocations :
          /\ waiters[w].pc = "sleeping"
          /\ now >= waiters[w].wake
          /\ waiters' = [waiters EXCEPT ![w] = [@ EXCEPT !.pc = "describe"]]
    /\ UNCHANGED <<sleepKind, waitVars, startVars>>
    /\ UNCHANGED <<ctxDone, cmdPc, cmd, cmdRet, stdout, factoryLog, envCall>>

\* time passes, between any two steps of the goroutines
Tick ==
    /\ now < MaxConcClock
    /\ now' = now + 1
    /\ UNCHANGED <<sleepKind, pc, asgName, refreshID, interval, timeout, hasCallback,
                   start, result, describeLog, callbackLog, sleepLog, ret>>
    /\ UNCHANGED startVars
    /\ UNCHANGED <<ctxDone, cmdPc, cmd, cmdRet, stdout, factoryLog, envCall, waiters>>

InitConc == Init /\ sleepKind = "time.Sleep" /\ now = 0

NextConc ==
    \/ ConcWaitForRefresh
    \/ ConcDescribe
    \/ ConcCallback
    \/ ConcTerminal
    \/ ConcDeadline
    \/ ConcSleep
    \/ ConcWake
    \/ Tick

\* two goroutines call WaitForRefresh on one refresher
ConcSpec == InitConc /\ [][NextConc]_vars

----------------------------------------------------------------------------
(* A call of WaitForRefresh whose steps all return *)

\* entry of a call with a positive interval and a timeout that the polls the
\* model allows can reach: after MaxPolls - 1 sleeps of the interval the
\* time since the start is at least the timeout
WaitForRefreshFinite ==
    /\ pc = "idle"
    /\ startPc = "idle"
    /\ \E i \in 1..MaxInterval, t \in 0..MaxTimeout, cb \in BOOLEAN :
          /\ t <= (MaxPolls - 1) * i
          /\ asgName' = "asg-a"
          /\ refreshID' = "r-1"
          /\ interval' = i
          /\ timeout' = t
          /\ hasCallback' = cb
    /\ start' = now
    /\ pc' = "describe"
    /\ UNCHANGED <<sleepKind, now, result, describeLog, callbackLog, sleepLog, ret>>
    /\ UNCHANGED startVars
    /\ UNCHANGED outerVars

\* a refresher whose sleep lets the interval pass on the clock
InitLive == Init /\ sleepKind = "time.Sleep" /\ now = 0

NextLive ==
    \/ WaitForRefreshFinite
    \/ Describe
    \/ Callback
    \/ Terminal
    \/ Deadline
    \/ Sleep

\* every describe call, callback and sleep returns, and the statements
\* between them are executed
LiveSpec ==
    /\ InitLive
    /\ [][NextLive]_vars
    /\ WF_vars(Describe)
    /\ WF_vars(Callback)
    /\ WF_vars(Terminal)
    /\ WF_vars(Deadline)
    /\ WF_vars(Sleep)

----------------------------------------------------------------------------
(* Reading the logs *)

\* the five statuses the specification lists as terminal
FiveTerminal ==
    {"Successful", "Failed", "Cancelled", "RollbackSuccessful", "RollbackFailed"}

NumPolls == Len(describeLog)
PollFailed(i) == describeLog[i].resp.err # NoCause
PollAbsent(i) ==
    /\ describeLog[i].resp.err = NoCause
    /\ Len(describeLog[i].resp.InstanceRefreshes) = 0
PollPresent(i) ==
    /\ describeLog[i].resp.err = NoCause
    /\ Len(describeLog[i].resp.InstanceRefreshes) > 0
PollSnapshot(i) == describeLog[i].resp.InstanceRefreshes[1]
PollTerminal(i) == PollPresent(i) /\ PollSnapshot(i).Status \in FiveTerminal
PollInProgress(i) == PollPresent(i) /\ PollSnapshot(i).Status \notin FiveTerminal

\* the snapshots of the present polls, in poll order
PresentSnapshots ==
    LET sel == SelectSeq(describeLog,
                   LAMBDA c : c.resp.err = NoCause /\ Len(c.resp.InstanceRefreshes) > 0)
    IN  [j \in 1..Len(sel) |-> sel[j].resp.InstanceRefreshes[1]]

\* the first n elements of a sequence
Prefix(q, n) == [j \in 1..n |-> q[j]]

Elapsed == now - start

----------------------------------------------------------------------------
(* Claims *)

\* C1: a poll that yields a present snapshot with one of the five terminal
\* statuses is the last poll: no describe call and no sleep follows it, the
\* loop is on its way out, and the value returned is the snapshot of that poll.
C1_TerminalShortCircuit ==
    \A i \in 1..NumPolls :
        PollTerminal(i) =>
            /\ i = NumPolls
            /\ Len(sleepLog) < i
            /\ pc \in {"callback", "terminal", "done"}
            /\ pc = "done" => ret = [result |-> PollSnapshot(i), err |-> NoError]

W_C1_RollbackOnSecondPoll ==
    /\ pc = "done"
    /\ NumPolls = 2
    /\ PollInProgress(1)
    /\ PollTerminal(2)
    /\ PollSnapshot(2).Status = "RollbackSuccessful"
    /\ ret.result = PollSnapshot(2)

\* C2: a failed describe call is the last thing the Waiter does: it returns
\* the Inspector's wrapped error unchanged and no snapshot, and no describe
\* call, callback invocation or sleep follows the failure.
C2_InspectorErrorPropagated ==
    \A i \in 1..NumPolls :
        PollFailed(i) =>
            /\ i = NumPolls
            /\ pc = "done"
            /\ ret = [result |-> NilRefresh,
                      err |-> [kind |-> "wrapped",
                               msg |-> "describe instance refresh",
                               cause |-> describeLog[i].resp.err]]
            /\ Len(sleepLog) < i
            /\ Len(callbackLog) < i

W_C2_ErrorOnSecondPoll ==
    /\ pc = "done"
    /\ NumPolls = 2
    /\ PollInProgress(1)
    /\ PollFailed(2)
    /\ hasCallback
    /\ ret.err.kind = "wrapped"

C4_ZeroTimeoutOnePoll ==
    ( /\ pc # "idle"
      /\ timeout = 0
      /\ \A i \in 1..NumPolls : PollInProgress(i) )
    =>
        /\ NumPolls <= 1
        /\ sleepLog = << >>
        /\ pc # "sleep"
        /\ NumPolls = 0 => pc = "describe"
        /\ pc = "done" =>
              /\ NumPolls = 1
              /\ ret.result = NilRefresh
              /\ ret.err.kind = "timeout"

W_C4_ZeroTimeoutTimedOut ==
    /\ pc = "done"
    /\ timeout = 0
    /\ NumPolls = 1
    /\ PollInProgress(1)
    /\ Elapsed = 0
    /\ ret.err.kind = "timeout"

\* C5: a timeout error is returned only right after a poll that was absent or
\* non-terminal and with the elapsed time at or over the timeout; when the
\* deadline check finds the elapsed time under the timeout the Waiter returns
\* nothing, goes to sleep and from the sleep to the next describe call.
C5_TimeoutOnlyWhenElapsed ==
    /\ [](pc = "done" /\ ret.err.kind = "timeout" =>
            /\ NumPolls >= 1
            /\ PollAbsent(NumPolls) \/ PollInProgress(NumPolls)
            /\ Elapsed >= timeout)
    /\ [][pc = "deadline" /\ Elapsed < timeout => pc' = "sleep" /\ ret' = ret]_vars
    /\ [][pc = "sleep" => pc' = "describe" /\ ret' = ret
                          /\ Len(sleepLog') = Len(sleepLog) + 1]_vars

W_C5_SleptThenTimedOut ==
    /\ pc = "done"
    /\ ret.err.kind = "timeout"
    /\ NumPolls = 2
    /\ PollAbsent(2)
    /\ Len(sleepLog) = 1
    /\ start = 1
    /\ timeout > 0
\* s is d ticks (half seconds) rendered in whole seconds: the nearest whole
\* number, the even one of the two when d lies halfway
RoundedSeconds(d, s) ==
    IF d % 2 = 0 THEN 2 * s = d
    ELSE (2 * s = d - 1 \/ 2 * s = d + 1) /\ s % 2 = 0

C7_TerminalEndsWithoutError ==
    \A s \in FiveTerminal :
        ( /\ pc = "done"
          /\ NumPolls > 0
          /\ PollPresent(NumPolls)
          /\ PollSnapshot(NumPolls).Status = s )
        => ret.err = NoError /\ ret.result.Status = s

W_C7_RollbackFailedReturned ==
    /\ pc = "done"
    /\ NumPolls = 1
    /\ PollPresent(1)
    /\ PollSnapshot(1).Status = "RollbackFailed"
    /\ ret.err = NoError
    /\ ret.result.Status = "RollbackFailed"

\* C8: a status outside the five terminal ones never ends the loop with a
\* result: a returned snapshot has one of the five statuses, a call whose last
\* poll was non-terminal can only have ended in a timeout error, and the
\* terminality check on a non-terminal snapshot passes on to the deadline check.
C8_NonTerminalKeepsPolling ==
    /\ [](pc = "done" /\ ret.result # NilRefresh =>
            ret.result.Status \in FiveTerminal)
    /\ [](pc = "done" /\ NumPolls > 0 /\ PollInProgress(NumPolls) =>
            ret.result = NilRefresh /\ ret.err.kind = "timeout")
    /\ [][pc = "terminal" /\ result.Status \notin FiveTerminal =>
            pc' = "deadline" /\ ret' = ret]_vars

W_C8_EmptyAndUnknownThenTerminal ==
    /\ pc = "done"
    /\ NumPolls = 3
    /\ PollPresent(1) /\ PollSnapshot(1).Status = ""
    /\ PollPresent(2) /\ PollSnapshot(2).Status = "Baking"
    /\ PollTerminal(3)
    /\ ret.result = PollSnapshot(3)

\* C9: the snapshots handed to the callback are the present snapshots of the
\* polls, in poll order (the one being handled is still to come while the
\* callback has not run); the callback has run when the terminality check is
\* made, and on a terminal exit the last snapshot the callback saw is the one
\* returned.
C9_CallbackSeesEverySnapshotInOrder ==
    hasCallback =>
        /\ callbackLog =
              IF pc = "callback"
              THEN Prefix(PresentSnapshots, Len(PresentSnapshots) - 1)
              ELSE PresentSnapshots
        /\ pc = "terminal" =>
              Len(callbackLog) > 0 /\ callbackLog[Len(callbackLog)] = result
        /\ pc = "done" /\ ret.result # NilRefresh =>
              Len(callbackLog) > 0 /\ callbackLog[Len(callbackLog)] = ret.result

W_C9_ThreeSnapshotsSeen ==
    /\ pc = "done"
    /\ hasCallback
    /\ NumPolls = 3
    /\ Len(callbackLog) = 3
    /\ callbackLog[1].addr = 1 /\ callbackLog[2].addr = 2 /\ callbackLog[3].addr = 3
    /\ callbackLog[1].PercentageComplete # callbackLog[2].PercentageComplete
    /\ ret.result = callbackLog[3]

\* C10: when polls 1..k-1 reported non-terminal statuses and poll k a terminal
\* one, the Waiter has returned the snapshot of poll k after k describe calls
\* and, with a callback supplied, k callback invocations.
C10_ReturnsAfterKPolls ==
    pc = "done" =>
        \A k \in 1..NumPolls :
            ( /\ \A j \in 1..(k - 1) : PollInProgress(j)
              /\ PollTerminal(k) )
            =>
                /\ NumPolls = k
                /\ hasCallback => Len(callbackLog) = k
                /\ ret = [result |-> PollSnapshot(k), err |-> NoError]

W_C10_InProgressInProgressSuccessful ==
    /\ pc = "done"
    /\ hasCallback
    /\ NumPolls = 3
    /\ PollPresent(1) /\ PollSnapshot(1).Status = "InProgress"
    /\ PollPresent(2) /\ PollSnapshot(2).Status = "InProgress"
    /\ PollPresent(3) /\ PollSnapshot(3).Status = "Successful"
    /\ Len(callbackLog) = 3
    /\ ret.result.Status = "Successful"
    /\ ret.err = NoError
\* C11: a poll that returns zero records is no outcome of its own: the step
\* that receives it returns nothing, invokes no callback and goes to the
\* deadline check; the nil result is never handed to the callback or to the
\* terminality check; the deadline check decides on the elapsed time alone,
\* as it does after a non-terminal snapshot; and a call whose last poll was
\* absent can only have ended in a timeout error.
C11_AbsentIsNoInformation ==
    /\ [](pc \in {"callback", "terminal"} => result # NilRefresh)
    /\ [](NumPolls > 0 /\ PollAbsent(NumPolls) =>
            /\ pc \in {"deadline", "sleep", "describe", "done"}
            /\ pc = "done" => ret.result = NilRefresh /\ ret.err.kind = "timeout")
    /\ [][( /\ Len(describeLog') = Len(describeLog) + 1
            /\ describeLog'[Len(describeLog')].resp.err = NoCause
            /\ Len(describeLog'[Len(describeLog')].resp.InstanceRefreshes) = 0 )
          => /\ pc' = "deadline"
             /\ result' = NilRefresh
             /\ ret' = ret
             /\ callbackLog' = callbackLog]_vars
    /\ [][pc = "deadline" =>
            IF Elapsed >= timeout
            THEN pc' = "done" /\ ret'.err.kind = "timeout"
            ELSE pc' = "sleep" /\ ret' = ret]_vars

W_C11_AbsentThenSleepThenAbsentTimeout ==
    /\ pc = "done"
    /\ NumPolls = 3
    /\ PollAbsent(1)
    /\ PollInProgress(2)
    /\ PollAbsent(3)
    /\ Len(sleepLog) = 2
    /\ callbackLog = << PollSnapshot(2) >>
    /\ ret.err.kind = "timeout"
----------------------------------------------------------------------------
(* Claims about StartRefresh *)

\* the options of the StartRefresh call and the preferences of the i-th
\* outgoing request
StartOpts == startArgs.opts
SentPrefs(i) == startLog[i].Preferences

\* C12: an optional field (MaxHealthyPercentage, InstanceWarmup) that is unset
\* in the options is absent from the preferences of every outgoing request:
\* a nil pointer, not a pointer to zero.
C12_UnsetFieldsOmitted ==
    \A i \in 1..Len(startLog) :
        /\ StartOpts.MaxHealthyPercentage = << >> =>
              SentPrefs(i).MaxHealthyPercentage = << >>
        /\ StartOpts.InstanceWarmup = << >> =>
              SentPrefs(i).InstanceWarmup = << >>

W_C12_MaxUnsetWarmupSet ==
    /\ startPc = "done"
    /\ StartOpts.MaxHealthyPercentage = << >>
    /\ StartOpts.InstanceWarmup = <<300>>
    /\ SentPrefs(1).MaxHealthyPercentage = << >>
    /\ SentPrefs(1).InstanceWarmup = <<300>>

\* C13: an optional field that is set in the options is carried by the
\* preferences of every outgoing request with exactly the value supplied,
\* values of MaxHealthyPercentage above 100 and the value 0 included.
C13_SetFieldsCarried ==
    \A i \in 1..Len(startLog) :
        /\ StartOpts.MaxHealthyPercentage # << >> =>
              SentPrefs(i).MaxHealthyPercentage = StartOpts.MaxHealthyPercentage
        /\ StartOpts.InstanceWarmup # << >> =>
              SentPrefs(i).InstanceWarmup = StartOpts.InstanceWarmup

W_C13_Max110WarmupZero ==
    /\ startPc = "done"
    /\ StartOpts.MaxHealthyPercentage = <<110>>
    /\ StartOpts.InstanceWarmup = <<0>>
    /\ SentPrefs(1).MaxHealthyPercentage = <<110>>
    /\ SentPrefs(1).InstanceWarmup = <<0>>

\* C14: every outgoing request has MinHealthyPercentage and SkipMatching
\* present (non-nil pointers), SkipMatching with the value of the options,
\* also when SkipMatching is false and MinHealthyPercentage is 0.
C14_MinAndSkipAlwaysPresent ==
    \A i \in 1..Len(startLog) :
        /\ Len(SentPrefs(i).MinHealthyPercentage) = 1
        /\ SentPrefs(i).SkipMatching = <<StartOpts.SkipMatching>>

W_C14_ZeroAndFalseSent ==
    /\ startPc = "done"
    /\ StartOpts.SkipMatching = FALSE
    /\ StartOpts.MinHealthyPercentage = [hi |-> 0, b31 |-> 0, low |-> 0]
    /\ SentPrefs(1).MinHealthyPercentage = <<0>>
    /\ SentPrefs(1).SkipMatching = <<FALSE>>

\* C15: every outgoing request has the strategy "Rolling", whatever the
\* options are.
C15_StrategyAlwaysRolling ==
    \A i \in 1..Len(startLog) : startLog[i].Strategy = "Rolling"

W_C15_RollingWithLaunchBeforeTerminate ==
    /\ startPc = "done"
    /\ StartOpts.MaxHealthyPercentage = <<110>>
    /\ StartOpts.SkipMatching
    /\ startLog[1].Strategy = "Rolling"

\* C16: a StartRefresh invocation has made one begin-refresh call from the
\* moment it calls the remote until after it has returned, with success or
\* with an error, and the remote answered once; it makes no describe call.
C16_ExactlyOneBeginCall ==
    /\ startPc = "idle" => startLog = << >> /\ startResp = << >>
    /\ startPc = "begin" => Len(startLog) = 1 /\ startResp = << >>
    /\ startPc = "done" => Len(startLog) = 1 /\ Len(startResp) = 1
    /\ startPc # "idle" => describeLog = << >> /\ pc = "idle"

W_C16_FailedCallNotRetried ==
    /\ startPc = "done"
    /\ Len(startLog) = 1
    /\ startResp[1].err = "AccessDenied"
    /\ startRet.err # NoError

\* C17: when the begin-refresh call succeeds, StartRefresh returns a handle
\* and no error; the handle's identifier is the one in the remote's response
\* (the empty string when the response has none) and its fleet name is the
\* name the caller passed, which is also the name sent in the request.
C17_HandleOnSuccess ==
    startPc = "done" /\ startResp[1].err = NoCause =>
        /\ startRet.err = NoError
        /\ Len(startRet.result) = 1
        /\ startRet.result[1].AutoScalingGroupName = startArgs.asgName
        /\ startLog[1].AutoScalingGroupName = <<startArgs.asgName>>
        /\ startRet.result[1].InstanceRefreshId =
              IF startResp[1].InstanceRefreshId = << >> THEN ""
              ELSE startResp[1].InstanceRefreshId[1]

W_C17_HandleForSecondFleet ==
    /\ startPc = "done"
    /\ startArgs.asgName = "asg-b"
    /\ startResp[1].InstanceRefreshId = <<"r-2">>
    /\ startRet.result =
          << [InstanceRefreshId |-> "r-2", AutoScalingGroupName |-> "asg-b"] >>

\* C18: when the begin-refresh call fails, StartRefresh returns no handle and
\* an error that wraps the cause the remote call failed with.
C18_SubmissionErrorWrapped ==
    startPc = "done" /\ startResp[1].err # NoCause =>
        startRet = [result |-> << >>,
                    err |-> [kind |-> "wrapped",
                             msg |-> "start instance refresh",
                             cause |-> startResp[1].err]]

W_C18_AccessDeniedWrapped ==
    /\ startPc = "done"
    /\ startResp[1].err = "AccessDenied"
    /\ startRet.result = << >>
    /\ startRet.err.cause = "AccessDenied"

\* the Go int x is the number v, v being a 32-bit value
SameNumber(x, v) ==
    x = IF v >= 0 THEN [hi |-> 0, b31 |-> 0, low |-> v]
        ELSE [hi |-> -1, b31 |-> 1, low |-> (v + 2147483647) + 1]

\* C19: the MinHealthyPercentage of every outgoing request is the number the
\* caller passed in the options, for every integer, those outside 0..100 and
\* those outside the 32-bit range included.
C19_MinHealthyForwardedVerbatim ==
    \A i \in 1..Len(startLog) :
        /\ Len(SentPrefs(i).MinHealthyPercentage) = 1
        /\ SameNumber(StartOpts.MinHealthyPercentage,
                      SentPrefs(i).MinHealthyPercentage[1])

----------------------------------------------------------------------------
(* Claims about DescribeRefresh *)

\* C20: a describe call has one of three outcomes, told by the remote's
\* answer alone: a failed remote call gives no snapshot and the error wrapped
\* as "describe instance refresh"; zero records give no snapshot and no
\* error; a record gives that record as the snapshot and no error.
C20_DescribeThreeOutcomes ==
    [][Len(describeLog') = Len(describeLog) + 1 =>
        LET out == describeLog'[Len(describeLog')].resp
        IN  IF out.err # NoCause
            THEN /\ result' = NilRefresh
                 /\ pc' = "done"
                 /\ ret' = [result |-> NilRefresh,
                            err |-> [kind |-> "wrapped",
                                     msg |-> "describe instance refresh",
                                     cause |-> out.err]]
            ELSE IF Len(out.InstanceRefreshes) = 0
            THEN /\ result' = NilRefresh
                 /\ pc' # "done"
                 /\ ret' = ret
            ELSE /\ result' = out.InstanceRefreshes[1]
                 /\ result' # NilRefresh
                 /\ pc' # "done"
                 /\ ret' = ret]_vars

W_C20_AbsentFoundFailed ==
    /\ pc = "done"
    /\ NumPolls = 3
    /\ PollAbsent(1)
    /\ PollPresent(2)
    /\ PollFailed(3)
    /\ describeLog[3].resp.err = "context canceled"
    /\ ret.err.kind = "wrapped"

----------------------------------------------------------------------------
(* C21: WaitForRefresh checks the caller's cancellation signal before each
   describe call: once the signal is cancelled, no new describe call is
   issued.  Stated as written; refresh.go:105-122 reads ctx nowhere, so a
   describe call is issued after the cancellation. *)
C21_NoDescribeAfterCancel ==
    [][ctxDone => Len(describeLog') = Len(describeLog)]_vars

----------------------------------------------------------------------------
(* C30: the loop is strictly sequential.  A describe call is issued only when
   every earlier poll has been followed by its sleep; a callback runs at most
   once per poll and before that poll's sleep; a sleep happens only after a
   poll that has not been slept on yet; and on every exit the number of sleeps
   is the number of polls minus one. *)
C30_StrictlySequential ==
    /\ [](pc = "done" => Len(sleepLog) = Len(describeLog) - 1)
    /\ [](Len(callbackLog) <= Len(describeLog))
    /\ [][/\ Len(describeLog') # Len(describeLog) =>
               /\ Len(describeLog') = Len(describeLog) + 1
               /\ Len(sleepLog) = Len(describeLog)
               /\ UNCHANGED <<callbackLog, sleepLog>>
          /\ Len(callbackLog') # Len(callbackLog) =>
               /\ Len(callbackLog') = Len(callbackLog) + 1
               /\ Len(sleepLog) = Len(describeLog) - 1
               /\ callbackLog'[Len(callbackLog')].addr = Len(describeLog)
               /\ \A j \in 1..Len(callbackLog) : callbackLog[j].addr < Len(describeLog)
               /\ UNCHANGED <<describeLog, sleepLog>>
          /\ Len(sleepLog') # Len(sleepLog) =>
               /\ Len(sleepLog') = Len(sleepLog) + 1
               /\ Len(sleepLog) = Len(describeLog) - 1
               /\ pc' # "done"
               /\ UNCHANGED <<describeLog, callbackLog>>]_vars

\* three polls, two sleeps, and the third poll ended the loop
W_C30_ThreePollsTwoSleeps ==
    /\ pc = "done"
    /\ Len(describeLog) = 3
    /\ Len(sleepLog) = 2
    /\ Len(callbackLog) = 2
    /\ ret.err = NoError

----------------------------------------------------------------------------
(* Reading the command line of the run *)

FlagGiven(f) == f \in DOMAIN cmd.flags /\ cmd.flags[f] # << >>
NameMissing == Len(cmd.args) = 0 /\ cmd.env.ASG_NAME = ""
IDMissing == Len(cmd.args) < 2 /\ cmd.env.INSTANCE_REFRESH_ID = ""
WaiterSucceeded == ret.err.kind = "nil" /\ ret.result.Status = "Successful"
WaiterEndedOtherwise ==
    /\ ret.err.kind = "nil"
    /\ ret.result.Status \in {"Failed", "Cancelled", "RollbackSuccessful", "RollbackFailed"}
SnapshotWritten == stdout = <<ret.result>>

\* C23 as stated: the check command returns no error exactly when the Waiter
\* returned a Successful snapshot; any other terminal status yields
\* errNonSuccessful; a timeout or inspection failure is returned as that
\* error.  The error of writing the output is not accounted for.
C23_Original_NoErrorIffSuccessful ==
    (cmd.name = "check" /\ cmdPc = "done" /\ pc = "done") =>
        /\ cmdRet.kind = "nil" <=> WaiterSucceeded
        /\ WaiterEndedOtherwise => cmdRet.kind = "errNonSuccessful"
        /\ ret.err.kind # "nil" => cmdRet = ret.err /\ cmdRet.kind # "errNonSuccessful"

\* C23: the check command returns no error exactly when the Waiter returned a
\* Successful snapshot and that snapshot was written to the output; any other
\* terminal status that was written yields errNonSuccessful; a snapshot that
\* could not be written yields the write error; a timeout or inspection
\* failure is returned as that error, which is not errNonSuccessful.
C23_CheckExitMapping ==
    (cmd.name = "check" /\ cmdPc = "done" /\ pc = "done") =>
        /\ cmdRet.kind = "nil" <=> (WaiterSucceeded /\ SnapshotWritten)
        /\ (WaiterEndedOtherwise /\ SnapshotWritten) => cmdRet.kind = "errNonSuccessful"
        /\ (ret.err.kind = "nil" /\ ~SnapshotWritten) =>
              cmdRet.kind = "write" /\ stdout = << >>
        /\ ret.err.kind # "nil" =>
              /\ cmdRet = ret.err
              /\ cmdRet.kind \in {"timeout", "wrapped"}
              /\ stdout = << >>

\* the refresh was cancelled remotely: the snapshot is written and the
\* command fails with errNonSuccessful
W_C23_CancelledIsNonSuccessful ==
    /\ cmd.name = "check"
    /\ cmdPc = "done"
    /\ pc = "done"
    /\ ret.err.kind = "nil"
    /\ ret.result.Status = "Cancelled"
    /\ Len(stdout) = 1
    /\ cmdRet.kind = "errNonSuccessful"

C25_MaxHealthyForwarded ==
    (cmd.name = "start" /\ cmdPc = "done" /\ ~NameMissing /\ Len(cmd.args) <= 1
        /\ cmdRet.kind \in {"nil", "unknown flag", "write"}) =>
        /\ Len(startLog) = 1
        /\ IF FlagGiven("max-healthy-percentage")
           THEN SentPrefs(1).MaxHealthyPercentage = <<110>>
           ELSE SentPrefs(1).MaxHealthyPercentage = << >>

C27_MissingArgumentFailsEarly ==
    /\ (cmd.name \in {"start", "check"} /\ NameMissing) =>
          /\ cmdPc = "done"
          /\ cmdRet.kind \in {"errorf", "unknown flag"}
          /\ cmdRet.kind = "errorf" =>
                cmdRet.msg = "ASG_NAME argument or environment variable required"
          /\ factoryLog = << >> /\ startLog = << >> /\ describeLog = << >>
          /\ stdout = << >>
    /\ (cmd.name = "check" /\ ~NameMissing /\ IDMissing) =>
          /\ cmdPc = "done"
          /\ cmdRet.kind = "errorf"
          /\ cmdRet.msg =
                "REFRESH_ID argument or INSTANCE_REFRESH_ID environment variable required"
          /\ factoryLog = << >> /\ startLog = << >> /\ describeLog = << >>
          /\ stdout = << >>

\* check asg-a with no identifier anywhere: the command failed before a
\* refresher was made
W_C27_CheckWithoutRefreshID ==
    /\ cmd.name = "check"
    /\ cmd.args = <<"asg-a">>
    /\ cmd.env.INSTANCE_REFRESH_ID = ""
    /\ cmdPc = "done"
    /\ cmdRet.kind = "errorf"
    /\ factoryLog = << >>
    /\ describeLog = << >>

\* C28 as stated: every option can be given by its environment variable,
\* which takes effect when the flag or argument is not on the command line:
\* ASG_NAME, MIN_HEALTHY_PERCENTAGE, INSTANCE_WARMUP and SKIP_MATCHING for
\* start, ASG_NAME, INSTANCE_REFRESH_ID, CHECK_INTERVAL and CHECK_TIMEOUT for
\* check.
C28_EnvVarsTakeEffect ==
    /\ (cmd.name = "start" /\ Len(startLog) >= 1) =>
          /\ Len(cmd.args) = 0 => startLog[1].AutoScalingGroupName = <<cmd.env.ASG_NAME>>
          /\ (~FlagGiven("min-healthy-percentage")
                /\ cmd.env.MIN_HEALTHY_PERCENTAGE = <<"7", "0">>) =>
                SentPrefs(1).MinHealthyPercentage = <<70>>
          /\ (~FlagGiven("instance-warmup") /\ cmd.env.INSTANCE_WARMUP = <<"1", "7">>) =>
                SentPrefs(1).InstanceWarmup = <<17>>
          /\ (~FlagGiven("skip-matching") /\ cmd.env.SKIP_MATCHING = "true") =>
                SentPrefs(1).SkipMatching = <<TRUE>>
    /\ (cmd.name = "check" /\ cmdPc = "check") =>
          /\ Len(cmd.args) = 0 => asgName = cmd.env.ASG_NAME
          /\ Len(cmd.args) < 2 => refreshID = cmd.env.INSTANCE_REFRESH_ID
          /\ (~FlagGiven("interval") /\ cmd.env.CHECK_INTERVAL = <<"0">>) => interval = 0
          /\ (~FlagGiven("timeout") /\ cmd.env.CHECK_TIMEOUT = <<"1">>) => timeout = 2

----------------------------------------------------------------------------
(* Reading a decimal numeral *)

DecimalDigits == {"0", "1", "2", "3", "4", "5", "6", "7", "8", "9"}

\* the digits of v, without the sign
Unsigned(v) ==
    IF Len(v) > 0 /\ v[1] \in {"+", "-"} THEN [j \in 1..(Len(v) - 1) |-> v[j + 1]] ELSE v

\* v is a decimal integer that fits a Go int: an optional sign and one
\* to nineteen digits (the drawn numerals have at most MaxEnvLen or twenty)
ValidInteger(v) ==
    /\ Len(Unsigned(v)) \in 1..19
    /\ \A j \in 1..Len(Unsigned(v)) : Unsigned(v)[j] \in DecimalDigits

\* n is the number a digit stands for
DigitIs(c, n) == n \in 0..9 /\ c = <<"0", "1", "2", "3", "4", "5", "6", "7", "8", "9">>[n + 1]

RECURSIVE PowerOfTen(_)
PowerOfTen(k) == IF k = 0 THEN 1 ELSE 10 * PowerOfTen(k - 1)

RECURSIVE PositionalSum(_, _)
PositionalSum(u, j) ==
    IF j > Len(u) THEN 0
    ELSE (CHOOSE n \in 0..9 : DigitIs(u[j], n)) * PowerOfTen(Len(u) - j)
         + PositionalSum(u, j + 1)

\* the number the valid numeral v stands for
NumberOf(v) ==
    IF v[1] = "-" THEN 0 - PositionalSum(Unsigned(v), 1) ELSE PositionalSum(Unsigned(v), 1)

\* C29: envIntOrDefault returns the integer the variable holds when the
\* variable is set to a valid integer, and the default when the variable is
\* unset, empty or not a valid integer; it returns a number in every case.
C29_EnvIntOrDefault ==
    envCall.pc = "returned" =>
        /\ envCall.out \in Int
        /\ envCall.out =
              IF envCall.set /\ ValidInteger(envCall.value)
              THEN NumberOf(envCall.value)
              ELSE envCall.def

\* the variable holds "1a": the default 90 is returned
W_C29_InvalidGivesDefault ==
    /\ envCall.pc = "returned"
    /\ envCall.set
    /\ envCall.value = <<"1", "a">>
    /\ envCall.def = 90
    /\ envCall.out = 90

----------------------------------------------------------------------------
(* Reading the logs of one of the concurrent calls *)

Callers == {1, 2}
OtherCaller(w) == 3 - w
ConcPolls(w) == Len(waiters[w].describeLog)
ConcAnswer(w, i) == waiters[w].describeLog[i].resp
ConcFailed(w, i) == ConcAnswer(w, i).err # ""
ConcPresent(w, i) ==
    ConcAnswer(w, i).err = "" /\ Len(ConcAnswer(w, i).InstanceRefreshes) > 0
ConcEnds(w, i) ==
    \/ ConcFailed(w, i)
    \/ /\ ConcPresent(w, i)
       /\ ConcAnswer(w, i).InstanceRefreshes[1].Status \in FiveTerminal

\* the snapshots call w was answered with, in poll order
ConcSnapshots(w) ==
    LET sel == SelectSeq(waiters[w].describeLog,
                   LAMBDA c : c.resp.err = "" /\ Len(c.resp.InstanceRefreshes) > 0)
    IN  [j \in 1..Len(sel) |-> sel[j].resp.InstanceRefreshes[1]]

\* what the call alone makes of its own polls: its requests name its own
\* fleet and identifier, its callback has seen its own snapshots in order,
\* it sleeps its own interval between polls, and it returns on its first
\* terminal or failed poll or with a timeout naming its own identifier
AsIfAlone(w) ==
    LET s == waiters[w]
        n == ConcPolls(w)
    IN  /\ \A i \in 1..n :
              /\ s.describeLog[i].AutoScalingGroupName = s.asgName
              /\ s.describeLog[i].InstanceRefreshIds = <<s.refreshID>>
              /\ i < n => ~ConcEnds(w, i)
        /\ \A j \in 1..Len(s.callbackLog) : s.callbackLog[j].InstanceRefreshId = s.refreshID
        /\ s.pc \in {"idle", "describe", "deadline", "sleep", "sleeping", "done"} =>
              s.callbackLog = ConcSnapshots(w)
        /\ \A j \in 1..Len(s.sleepLog) : s.sleepLog[j] = s.interval
        /\ s.pc = "done" =>
              /\ n >= 1
              /\ Len(s.sleepLog) = n - 1
              /\ CASE s.ret.err.kind = "nil" ->
                         /\ ConcPresent(w, n)
                         /\ s.ret.result = ConcAnswer(w, n).InstanceRefreshes[1]
                         /\ s.ret.result.Status \in FiveTerminal
                    [] s.ret.err.kind = "wrapped" ->
                         /\ ConcFailed(w, n)
                         /\ s.ret.err.cause = ConcAnswer(w, n).err
                    [] s.ret.err.kind = "timeout" ->
                         /\ ~ConcEnds(w, n)
                         /\ s.ret.err.refreshID = s.refreshID
                         /\ now - s.start >= s.timeout

\* C22: concurrent calls of WaitForRefresh for different refresh identifiers
\* do not interfere.  A step of one call changes nothing of the other call;
\* the start time of a call is the clock at its entry and stays what it is;
\* the deadline test of a call compares the clock with its own start and
\* timeout; and under every interleaving each call's requests, callback
\* sequence, sleeps, poll count and result are what the call makes of its own
\* polls alone.
C22_NoInterference ==
    /\ [](\A w \in Callers : AsIfAlone(w))
    /\ [][\A w \in Callers :
            /\ waiters'[w] # waiters[w] =>
                  waiters'[OtherCaller(w)] = waiters[OtherCaller(w)]
            /\ (waiters[w].pc = "idle" /\ waiters'[w].pc # "idle") =>
                  waiters'[w].start = now
            /\ waiters[w].pc # "idle" =>
                  /\ waiters'[w].start = waiters[w].start
                  /\ waiters'[w].timeout = waiters[w].timeout
                  /\ waiters'[w].refreshID = waiters[w].refreshID
            /\ (waiters[w].pc = "deadline" /\ waiters'[w].pc # "deadline") =>
                  (waiters'[w].pc = "done" <=>
                      now - waiters[w].start >= waiters[w].timeout)]_vars

\* the first call sleeps after its first poll while the second call, entered
\* later, has made two polls and both callbacks have run
W_C22_Interleaved ==
    /\ waiters[1].pc = "sleeping"
    /\ ConcPolls(1) = 1
    /\ Len(waiters[1].callbackLog) = 1
    /\ waiters[2].pc = "done"
    /\ ConcPolls(2) = 2
    /\ Len(waiters[2].callbackLog) = 2
    /\ waiters[2].start > waiters[1].start
    /\ waiters[2].ret.err.kind = "nil"

----------------------------------------------------------------------------
(* C31: every sleep is requested with the poll interval the caller passed,
   the same on every iteration; the clock moves by that interval over a
   time.Sleep and not at all over the sleep of a test refresher, and no step
   of the loop other than the describe call and the sleep lets time pass. *)
C31_SleepIsCallerInterval ==
    /\ [](\A j \in 1..Len(sleepLog) : sleepLog[j] = interval)
    /\ [][/\ Len(sleepLog') # Len(sleepLog) =>
               /\ sleepLog'[Len(sleepLog')] = interval
               /\ interval' = interval
               /\ now' - now = IF sleepKind = "noop" THEN 0 ELSE interval
          /\ (Len(sleepLog') = Len(sleepLog) /\ Len(describeLog') = Len(describeLog)) =>
               now' = now]_vars

\* two sleeps of half a second each, with time.Sleep
W_C31_TwoEqualSleeps ==
    /\ sleepKind = "time.Sleep"
    /\ interval = 1
    /\ sleepLog = <<1, 1>>
    /\ Len(describeLog) = 3

----------------------------------------------------------------------------
(* C32: the start time is the clock at the entry of the call and is never
   set again; the deadline test compares the time since that start, which
   includes every poll and sleep so far, with the timeout. *)
C32_StartRecordedOnce ==
    [][/\ (pc = "idle" /\ pc' # "idle") => start' = now
       /\ pc # "idle" => start' = start
       /\ (pc = "deadline" /\ pc' = "done") => now - start >= timeout
       /\ (pc = "deadline" /\ pc' = "sleep") => now - start < timeout]_vars

\* a timeout of one second reached by two sleeps of half a second: the time
\* since the last poll is half a second, the time since the start one second
W_C32_TotalElapsedCounts ==
    /\ pc = "done"
    /\ ret.err.kind = "timeout"
    /\ sleepKind = "time.Sleep"
    /\ start = 1
    /\ timeout = 2
    /\ sleepLog = <<1, 1>>
    /\ now - start = 2

----------------------------------------------------------------------------
(* C33: every describe call of a WaitForRefresh call names the fleet the
   caller passed and a list of exactly one identifier, the one the caller
   passed; the arguments stay what they were at entry, and no
   StartInstanceRefresh call is made while or after WaitForRefresh runs. *)
C33_OneIdentifierPerDescribe ==
    /\ [](\A i \in 1..Len(describeLog) :
            /\ describeLog[i].AutoScalingGroupName = asgName
            /\ Len(describeLog[i].InstanceRefreshIds) = 1
            /\ describeLog[i].InstanceRefreshIds[1] = refreshID)
    /\ [](pc # "idle" => startLog = << >>)
    /\ [][pc # "idle" =>
            /\ asgName' = asgName
            /\ refreshID' = refreshID
            /\ startLog' = startLog]_vars

\* three describe calls for refresh r-2 of fleet asg-b
W_C33_ThreeCallsForSecondHandle ==
    /\ Len(describeLog) = 3
    /\ asgName = "asg-b"
    /\ refreshID = "r-2"
    /\ describeLog[3].InstanceRefreshIds = <<"r-2">>
    /\ describeLog[3].AutoScalingGroupName = "asg-b"
    /\ startLog = << >>

----------------------------------------------------------------------------
(* C34: a poll that yields a terminal snapshot ends the call with that
   snapshot and no error, also when the time since the start has reached the
   timeout by then: the status is looked at before the deadline. *)
C34_TerminalBeforeTimeout ==
    /\ []((pc = "done" /\ NumPolls >= 1 /\ PollTerminal(NumPolls)) =>
            /\ ret.err.kind = "nil"
            /\ ret.result = PollSnapshot(NumPolls))
    /\ [][(pc = "terminal" /\ result.Status \in FiveTerminal /\ now - start >= timeout) =>
            /\ pc' = "done"
            /\ ret'.err.kind = "nil"
            /\ ret'.result = result]_vars

\* a timeout of zero and a first poll that is Failed: the snapshot is
\* returned, not a timeout
W_C34_ZeroTimeoutTerminalFirstPoll ==
    /\ pc = "done"
    /\ timeout = 0
    /\ NumPolls = 1
    /\ PollPresent(1)
    /\ PollSnapshot(1).Status = "Failed"
    /\ ret.err.kind = "nil"
    /\ ret.result.Status = "Failed"

----------------------------------------------------------------------------
(* C35: a call that has returned took exactly one of three exits: a snapshot
   with a terminal status and no error, no snapshot and a timeout error, or
   no snapshot and the error of the describe call. *)
C35_ExactlyOneExit ==
    pc = "done" =>
        LET terminalExit ==
                /\ ret.err.kind = "nil"
                /\ ret.result.addr # 0
                /\ ret.result.Status \in FiveTerminal
            timedOut == ret.err.kind = "timeout" /\ ret.result.addr = 0
            errored == ret.err.kind = "wrapped" /\ ret.result.addr = 0
        IN  /\ terminalExit \/ timedOut \/ errored
            /\ ~(terminalExit /\ timedOut)
            /\ ~(terminalExit /\ errored)
            /\ ~(timedOut /\ errored)
            /\ ret.err.kind \in {"nil", "timeout", "wrapped"}

\* the call timed out right after a poll that found the refresh InProgress:
\* no snapshot is returned with the error
W_C35_TimedOutWithoutSnapshot ==
    /\ pc = "done"
    /\ ret.err.kind = "timeout"
    /\ ret.result.addr = 0
    /\ NumPolls = 2
    /\ PollPresent(2)
    /\ PollSnapshot(2).Status = "InProgress"

----------------------------------------------------------------------------
(* C36: when every describe call, callback and sleep returns and each sleep
   lets a positive interval pass on the clock, a call with a finite timeout
   returns in the end, whatever the remote answers, a refresh that is never
   terminal or never found included. *)
C36_EventuallyReturns == (pc # "idle") ~> (pc = "done")

\* the remote never found the refresh; the call timed out after three polls
W_C36_AlwaysAbsentTimedOut ==
    /\ pc = "done"
    /\ ret.err.kind = "timeout"
    /\ interval = 1
    /\ timeout = 2
    /\ NumPolls = 3
    /\ \A i \in 1..3 : PollAbsent(i)
    /\ Len(sleepLog) = 2

----------------------------------------------------------------------------
(* C37: when the check command returns errNonSuccessful, the final snapshot,
   whose status is terminal and not Successful, has been written to the
   output; when WaitForRefresh returned an error (a timeout or the error of a
   describe call), nothing has been written.  Nothing but the returned
   snapshot is ever written, and it is written once. *)
C37_SnapshotWrittenBeforeExit ==
    cmd.name = "check" =>
        /\ cmdRet.kind = "errNonSuccessful" =>
              /\ cmdPc = "done"
              /\ Len(stdout) = 1
              /\ stdout[1] = ret.result
              /\ stdout[1].Status \in
                    {"Failed", "Cancelled", "RollbackSuccessful", "RollbackFailed"}
        /\ (pc = "done" /\ ret.err.kind \in {"timeout", "wrapped"}) => stdout = << >>
        /\ cmdPc # "done" => stdout = << >>
        /\ Len(stdout) <= 1
        /\ Len(stdout) = 1 => (ret.err.kind = "nil" /\ stdout[1] = ret.result)

\* a refresh whose rollback failed is printed and the command fails
W_C37_RollbackFailedPrinted ==
    /\ cmd.name = "check"
    /\ cmdPc = "done"
    /\ cmdRet.kind = "errNonSuccessful"
    /\ Len(stdout) = 1
    /\ stdout[1].Status = "RollbackFailed"
    /\ Len(describeLog) = 2
====
